---- MODULE Spec2Model ----
(***************************************************************************)
(* A model of the image-model repository: the spectral analysis module     *)
(* (src/spectral_analysis.py), the classifier wrapper                      *)
(* (src/detection_engine.py), the Flask front end (src/app.py) and the     *)
(* desktop front end (src/ai_detector_gui.py).                             *)
(*                                                                         *)
(* Modelling conventions                                                   *)
(*  - An image file is a record.  `decodable` says whether cv2.imread and  *)
(*    PIL.Image.open can decode it; H and W are its height and width.      *)
(*  - numpy's fft2/fftshift/abs are library code: the magnitude spectrum   *)
(*    of a file is given by the file's remaining fields (dc, low, base,    *)
(*    peak, p, single) through Magnitude.  The grids generated are         *)
(*    point-symmetric about the centre with the DC term the largest, as    *)
(*    the spectrum of a real-valued image is.                              *)
(*  - Magnitudes are integers and mean/std are kept as exact sums, so      *)
(*    "m > mean + 3*std" is decided in exact arithmetic.                   *)
(*  - A text is the sequence of its lines ("\n".join of the sequence).     *)
(*    The status glyphs U+26A0 and U+2713 that open the two verdicts are   *)
(*    written [!] and [v].                                                 *)
(***************************************************************************)
EXTENDS Integers, Sequences, FiniteSets, TLC

VARIABLES
    sp_op,      \* spectral_analysis: the function last called ("none" at start)
    sp_file,    \* spectral_analysis: the file at the path the caller passes
    sp_out,     \* spectral_analysis: how the call ended
    det_in,     \* detection_engine: the model asked for, what the pipeline()
                \* calls and the classifier will answer, the file to classify
    det,        \* detection_engine: the AIImageDetector ("unbuilt" before __init__)
    det_out,    \* detection_engine: the outcome of the last detect()
    det_fmt,    \* detection_engine: the outcome of the last get_formatted_result()
    web_mode,   \* app.py: "off", then "main" (python app.py) or "imported" (WSGI)
    detector,   \* app.py: the module global `detector`
    loads,      \* app.py: AIImageDetector() constructions made by get_detector
    web_get,    \* app.py: what the last get_detector() call returned
    temp_uploads, \* app.py: the file names present in UPLOAD_FOLDER
    web_req,    \* app.py: the last /analyze request
    web_resp,   \* app.py: the response to it
    served,     \* app.py: the number of /analyze requests answered
    gui_detector,   \* ai_detector_gui.py: self.detector
    gui_load,       \* ai_detector_gui.py: the load thread: "loading", "loaded", "failed"
    is_processing,  \* ai_detector_gui.py: self.is_processing
    current_image_path, \* ai_detector_gui.py: the file at self.current_image_path
    workers,        \* ai_detector_gui.py: the _analyze_image threads started, in order
    after_q,        \* ai_detector_gui.py: callbacks queued with self.after(0, ...)
    result_label,   \* ai_detector_gui.py: the detection shown
    spectrum_view,  \* ai_detector_gui.py: the figure and analysis text shown
    status_label,   \* ai_detector_gui.py: the status line
    gui_last,       \* ai_detector_gui.py: how the last _process_image call ended
    uploads         \* ai_detector_gui.py: the number of _process_image calls

sp_vars == <<sp_op, sp_file, sp_out>>
det_vars == <<det_in, det, det_out, det_fmt>>
web_vars == <<web_mode, detector, loads, web_get, temp_uploads, web_req, web_resp, served>>
gui_vars == <<gui_detector, gui_load, is_processing, current_image_path, workers,
              after_q, result_label, spectrum_view, status_label, gui_last, uploads>>
vars == <<sp_vars, det_vars, web_vars, gui_vars>>

----------------------------------------------------------------------------
(* Bounds of the model *)

MaxDim == 9         \* small images are H x W with H, W in 1..MaxDim
BigDim == 34        \* the side of the one large (square) image size
MaxResults == 2     \* the classifier returns 1..MaxResults predictions
MaxRequests == 3    \* /analyze requests in one run of the web app
MaxUploads == 3     \* images chosen in one run of the desktop app

(* Program constants *)

AnomalyLimit == 100     \* anomalies > 100
SigmaFactor == 3        \* spectrum_mean + 3 * spectrum_std
RadiusDivisor == 4      \* min(center_y, center_x) // 4

----------------------------------------------------------------------------
(* Image files *)

Min(a, b) == IF a < b THEN a ELSE b
Abs(a) == IF a < 0 THEN -a ELSE a

NoFile == [decodable |-> FALSE, H |-> 0, W |-> 0, dc |-> 0, low |-> 0,
           base |-> 0, peak |-> 0, p |-> 0, single |-> FALSE]

SmallFiles ==
    [decodable : {TRUE}, H : 1..MaxDim, W : 1..MaxDim, dc : {9}, low : {0, 9},
     base : {0, 1}, peak : {3}, p : {0, 1}, single : BOOLEAN]

BigFiles ==
    [decodable : {TRUE}, H : {BigDim}, W : {BigDim}, dc : {9}, low : {0},
     base : {0}, peak : {1},
     p : {AnomalyLimit \div 2, AnomalyLimit \div 2 + 6}, single : BOOLEAN]

Files == {NoFile} \cup SmallFiles \cup BigFiles

(* cv2.imread(path, IMREAD_GRAYSCALE) returns None for a path that does not
   resolve to a decodable image. *)
imread_is_None(f) == ~f.decodable

----------------------------------------------------------------------------
(* The magnitude spectrum np.abs(np.fft.fftshift(np.fft.fft2(img))) *)

center_y(f) == f.H \div 2
center_x(f) == f.W \div 2

Cells(f) == (0 .. f.H - 1) \X (0 .. f.W - 1)

Reflect(f, y, x) == <<(2 * center_y(f) - y) % f.H, (2 * center_x(f) - x) % f.W>>

Seed(f, y, x) ==
    \/ f.single /\ y = 0 /\ x = 0
    \/ y * f.W + x >= f.W /\ y * f.W + x < f.W + f.p

Bright(f, y, x) ==
    \/ Seed(f, y, x)
    \/ Seed(f, Reflect(f, y, x)[1], Reflect(f, y, x)[2])

Magnitude(f, y, x) ==
    IF y = center_y(f) /\ x = center_x(f) THEN f.dc
    ELSE IF Abs(y - center_y(f)) + Abs(x - center_x(f)) = 1 THEN f.low
    ELSE IF Bright(f, y, x) THEN f.peak
    ELSE f.base

----------------------------------------------------------------------------
(* analyze_spectrum_patterns *)

radius_V2(f) == Min(center_y(f), center_x(f)) \div (2 * RadiusDivisor)
radius(f) == Min(center_y(f), center_x(f)) \div RadiusDivisor

InMask_V2(f, y, x) ==
    (y - center_y(f)) * (y - center_y(f)) + (x - center_x(f)) * (x - center_x(f))
        >= radius(f) * radius(f)
InMask(f, y, x) ==
    (y - center_y(f)) * (y - center_y(f)) + (x - center_x(f)) * (x - center_x(f))
        > radius(f) * radius(f)

\* magnitude_spectrum[mask], as the set of the cells selected
Masked(f) == {c \in Cells(f) : InMask(f, c[1], c[2])}

RECURSIVE MaskedRowSum(_, _, _, _)
MaskedRowSum(f, y, x, k) ==
    IF x < 0 THEN 0
    ELSE (IF InMask(f, y, x) THEN Magnitude(f, y, x) ^ k ELSE 0)
         + MaskedRowSum(f, y, x - 1, k)

\* the sum of the k-th powers of magnitude_spectrum[mask] over rows 0..y
RECURSIVE MaskedSum(_, _, _)
MaskedSum(f, y, k) ==
    IF y < 0 THEN 0
    ELSE MaskedRowSum(f, y, f.W - 1, k) + MaskedSum(f, y - 1, k)

\* m > spectrum_mean + 3 * spectrum_std, for n values of sum s and sum of
\* squares q: mean = s/n, std = sqrt(n*q - s*s)/n
ExceedsThreshold(m, n, s, q) ==
    /\ n * m - s > 0
    /\ (n * m - s) * (n * m - s) > SigmaFactor * SigmaFactor * (n * q - s * s)

\* np.max of a non-empty selection
MaxOf(S) == CHOOSE v \in S : \A w \in S : w <= v

AnomalousPair == <<"[!] High number of spectral anomalies detected.",
                   "This is a common characteristic of GAN/Diffusion generation.">>
NaturalPair == <<"[v] Spectral pattern appears natural.",
                 "No significant high-frequency artifacts found.">>
Sentinel == <<"Could not analyze image">>

IsAnomalous(anomalies) == anomalies > AnomalyLimit

NoLocals == [radius |-> -1, n |-> -1, sum |-> -1, sumsq |-> -1, max |-> -1,
             anomalies |-> -1]

\* The outcome of analyze_spectrum_patterns(f): what it raised ("none" when it
\* returned), the text returned, and the locals it had computed.
analyze_spectrum_patterns(f) ==
    IF imread_is_None(f)
    THEN [raised |-> "none", text |-> Sentinel, fig |-> FALSE, locals |-> NoLocals]
    ELSE
      LET sel == Masked(f)
          n == Cardinality(sel)
          s == MaskedSum(f, f.H - 1, 1)
          q == MaskedSum(f, f.H - 1, 2)
      IN  IF n = 0
          THEN \* np.std of the empty selection is nan; np.max of it raises
               [raised |-> "ValueError", text |-> <<>>, fig |-> FALSE,
                locals |-> [radius |-> radius(f), n |-> 0, sum |-> 0, sumsq |-> 0,
                            max |-> -1, anomalies |-> -1]]
          ELSE
            LET anomalies == Cardinality(
                    {c \in sel : ExceedsThreshold(Magnitude(f, c[1], c[2]), n, s, q)})
            IN  [raised |-> "none",
                 text |-> IF IsAnomalous(anomalies) THEN AnomalousPair
                          ELSE NaturalPair,
                 fig |-> FALSE,
                 locals |-> [radius |-> radius(f), n |-> n, sum |-> s, sumsq |-> q,
                             max |-> MaxOf({Magnitude(f, c[1], c[2]) : c \in sel}),
                             anomalies |-> anomalies]]

----------------------------------------------------------------------------
(* compute_spectral_fingerprint_web and its alias compute_spectral_fingerprint *)

compute_spectral_fingerprint_web_V2(f) ==
    IF imread_is_None(f)
    THEN [raised |-> "none", text |-> Sentinel, fig |-> FALSE, locals |-> NoLocals]
    ELSE [raised |-> "none", text |-> <<>>, fig |-> TRUE, locals |-> NoLocals]
compute_spectral_fingerprint_web(f) ==
    IF imread_is_None(f)
    THEN [raised |-> "ValueError", text |-> <<>>, fig |-> FALSE, locals |-> NoLocals]
    ELSE [raised |-> "none", text |-> <<>>, fig |-> TRUE, locals |-> NoLocals]

compute_spectral_fingerprint(f) == compute_spectral_fingerprint_web(f)

----------------------------------------------------------------------------
(* detection_engine.py: AIImageDetector *)

\* A label is the sequence of its characters.
UpperCase == <<"A", "B", "C", "D", "E", "F", "G", "H", "I", "J", "K", "L", "M", "N", "O", "P", "Q", "R", "S", "T", "U", "V", "W", "X", "Y", "Z">>
LowerCase == <<"a", "b", "c", "d", "e", "f", "g", "h", "i", "j", "k", "l", "m", "n", "o", "p", "q", "r", "s", "t", "u", "v", "w", "x", "y", "z">>

\* str.lower(), one character
lower_char(c) ==
    IF \E i \in 1..Len(UpperCase) : UpperCase[i] = c
    THEN LowerCase[CHOOSE i \in 1..Len(UpperCase) : UpperCase[i] = c]
    ELSE c

\* str.lower()
lower(t) == [i \in 1..Len(t) |-> lower_char(t[i])]

\* keyword in text (substring test)
Contains(t, k) ==
    \E i \in 1..(Len(t) - Len(k) + 1) : SubSeq(t, i, i + Len(k) - 1) = k

ai_keywords == <<<<"a", "r", "t", "i", "f", "i", "c", "i", "a", "l">>,
                 <<"f", "a", "k", "e">>,
                 <<"a", "i">>,
                 <<"g", "e", "n", "e", "r", "a", "t", "e", "d">>,
                 <<"s", "y", "n", "t", "h", "e", "t", "i", "c">>,
                 <<"d", "i", "f", "f", "u", "s", "i", "o", "n">>,
                 <<"g", "a", "n">>,
                 <<"s", "t", "a", "b", "l", "e">>>>
real_keywords == <<<<"r", "e", "a", "l">>,
                   <<"n", "a", "t", "u", "r", "a", "l">>,
                   <<"p", "h", "o", "t", "o">>,
                   <<"a", "u", "t", "h", "e", "n", "t", "i", "c">>,
                   <<"h", "u", "m", "a", "n">>>>
not_marker == <<"n", "o", "t">>

\* any(keyword in text for keyword in keywords)
any_keyword(t, keywords) == \E j \in 1..Len(keywords) : Contains(t, keywords[j])

\* The labels the classifiers of the model return in this model: those of the
\* detectors ("artificial", "human"), cased variants, ImageNet classes of the
\* last fallback ("tabby", "notebook"), and one naming both kinds.
L_artificial == <<"a", "r", "t", "i", "f", "i", "c", "i", "a", "l">>
L_human == <<"h", "u", "m", "a", "n">>
L_FAKE == <<"F", "A", "K", "E">>
L_Real == <<"R", "e", "a", "l">>
L_tabby == <<"t", "a", "b", "b", "y">>
L_notebook == <<"n", "o", "t", "e", "b", "o", "o", "k">>
L_ai_photo == <<"a", "i", " ", "p", "h", "o", "t", "o">>
Labels == {L_artificial, L_human, L_FAKE, L_Real, L_tabby, L_notebook, L_ai_photo}

\* The models: the default, and the fallback list of _load_model.
DefaultModel == "umm-maybe/AI-image-detector"
fallback_models == <<"Organika/sdxl-detector", "saltacc/anime-ai-detect",
                     "google/vit-base-patch16-224">>

\* The pipeline() calls of one _load_model, in order.
PipelineOrder_V2(requested) ==
    <<requested, fallback_models[2], fallback_models[1], fallback_models[3]>>
PipelineOrder(requested) == <<requested>> \o fallback_models

\* _load_model for a detector asked for `requested`, when the i-th pipeline()
\* call of this load succeeds iff ok[i]: the calls made (attempts), the fields
\* of the object afterwards, and what was raised.
RECURSIVE TryFallbacks(_, _, _)
TryFallbacks(requested, ok, i) ==
    IF i > Len(PipelineOrder(requested))
    THEN [model_name |-> PipelineOrder(requested)[i - 1], classifier |-> "None",
          raised |-> "RuntimeError", attempts |-> PipelineOrder(requested)]
    ELSE IF ok[i]
    THEN [model_name |-> PipelineOrder(requested)[i],
          classifier |-> PipelineOrder(requested)[i],
          raised |-> "none", attempts |-> SubSeq(PipelineOrder(requested), 1, i)]
    ELSE TryFallbacks(requested, ok, i + 1)

load_model(requested, ok) ==
    IF ok[1]
    THEN [model_name |-> requested, classifier |-> requested, raised |-> "none",
          attempts |-> <<requested>>]
    ELSE TryFallbacks(requested, ok, 2)

\* AIImageDetector(model_name): __init__ sets the fields and calls _load_model
NewDetector(requested, ok) == load_model(requested, ok)

LoadOutcomes == [1..Len(PipelineOrder(DefaultModel)) -> BOOLEAN]

\* detect(image_path) on file f when the classifier answers `results` (a
\* non-empty list of [label, score], score in hundredths) or fails (infer_ok
\* false).  confidence = score * 100 is the score in hundredths.
NoReturn == [label |-> "", confidence |-> -1, model_used |-> ""]

FirstAI(results) ==
    CHOOSE i \in 1..Len(results) :
        /\ any_keyword(lower(results[i].label), ai_keywords)
        /\ \A j \in 1..(i - 1) : ~any_keyword(lower(results[j].label), ai_keywords)

SecondLook(results, is_ai, is_real) ==
    /\ ~is_ai /\ ~is_real /\ Len(results) > 1
    /\ \E i \in 1..Len(results) : any_keyword(lower(results[i].label), ai_keywords)

\* label = 'real' if 'not' not in label_text else 'artificial'
DefaultLabel_V2(label_text) == "real"
DefaultLabel(label_text) ==
    IF ~Contains(label_text, not_marker) THEN "real" ELSE "artificial"

FinalLabel_V2(is_ai, is_real, label_text) ==
    IF is_real THEN "real"
    ELSE IF is_ai THEN "artificial"
    ELSE DefaultLabel(label_text)
FinalLabel(is_ai, is_real, label_text) ==
    IF is_ai THEN "artificial"
    ELSE IF is_real THEN "real"
    ELSE DefaultLabel(label_text)

detect(d, f, infer_ok, results) ==
    IF d.classifier = "None"
    THEN [raised |-> "RuntimeError", ret |-> NoReturn]
    ELSE IF ~f.decodable          \* Image.open(image_path) raises
    THEN [raised |-> "OSError", ret |-> NoReturn]
    ELSE IF ~infer_ok             \* self.classifier(image) raises
    THEN [raised |-> "Exception", ret |-> NoReturn]
    ELSE
      LET label_text == lower(results[1].label)
          is_ai0 == any_keyword(label_text, ai_keywords)
          is_real == any_keyword(label_text, real_keywords)
          second == SecondLook(results, is_ai0, is_real)
          top_result == IF second THEN results[FirstAI(results)] ELSE results[1]
          is_ai == is_ai0 \/ second
      IN  [raised |-> "none",
           ret |-> [label |-> FinalLabel(is_ai, is_real, label_text),
                    confidence |-> top_result.score,
                    model_used |-> d.model_name]]

\* str.capitalize() of the labels detect returns
capitalize(l) ==
    IF l = "artificial" THEN "Artificial" ELSE IF l = "real" THEN "Real" ELSE l

\* get_formatted_result: f"{confidence:.1f}% {label}" as [pct, word]
NoText == [pct |-> -1, word |-> ""]
get_formatted_result(d, f, infer_ok, results) ==
    LET r == detect(d, f, infer_ok, results)
    IN  IF r.raised # "none" THEN [raised |-> r.raised, text |-> NoText]
        ELSE [raised |-> "none",
              text |-> [pct |-> r.ret.confidence, word |-> capitalize(r.ret.label)]]

----------------------------------------------------------------------------
(* The values of the variables before anything is called *)

NoOut == [raised |-> "none", text |-> <<>>, fig |-> FALSE, locals |-> NoLocals]

NoDetIn == [requested |-> "", ok |-> [i \in 1..Len(PipelineOrder(DefaultModel)) |-> FALSE],
            file |-> NoFile, infer_ok |-> FALSE, results |-> <<>>]
Unbuilt == [model_name |-> "", classifier |-> "None", raised |-> "unbuilt",
            attempts |-> <<>>]
NoDetOut == [raised |-> "uncalled", ret |-> NoReturn]
NoFmt == [raised |-> "uncalled", text |-> NoText]

\* app.py before it is started
NoDetector == [id |-> 0, model_name |-> "", classifier |-> "None"]
NoRequest == [has_image |-> FALSE, filename |-> "", file |-> NoFile]
NoResponse == [status |-> 0, error |-> "", detection |-> NoText, is_ai |-> FALSE,
               confidence |-> -1, spectrum_image |-> FALSE, analysis |-> <<>>]
WebOff ==
    /\ web_mode = "off" /\ detector = NoDetector /\ loads = 0 /\ web_get = NoDetector
    /\ temp_uploads = {} /\ web_req = NoRequest /\ web_resp = NoResponse /\ served = 0

\* ai_detector_gui.py: the widgets as _create_layout leaves them
NoStatus == [text |-> "Ready to analyze", color |-> "gray"]
NoResult == [detection |-> NoText, msg |-> "No image analyzed yet", color |-> "gray"]
NoSpectrum == [figure |-> FALSE, analysis |-> <<>>]
NoUpload == [outcome |-> "none", file |-> NoFile, load |-> ""]
GuiUnused ==
    /\ gui_detector = NoDetector /\ is_processing = FALSE
    /\ current_image_path = NoFile /\ workers = <<>> /\ after_q = <<>>
    /\ result_label = NoResult /\ spectrum_view = NoSpectrum
    /\ status_label = NoStatus /\ gui_last = NoUpload /\ uploads = 0
GuiOff == gui_load = "off" /\ GuiUnused

----------------------------------------------------------------------------
(* The spectral module called on its own *)

InitSpectral ==
    /\ sp_op = "none"
    /\ sp_file \in Files
    /\ sp_out = NoOut
    /\ det_in = NoDetIn /\ det = Unbuilt /\ det_out = NoDetOut /\ det_fmt = NoFmt
    /\ WebOff /\ GuiOff

CallFingerprintWeb ==
    /\ sp_op' = "compute_spectral_fingerprint_web"
    /\ sp_out' = compute_spectral_fingerprint_web(sp_file)
    /\ UNCHANGED <<sp_file, det_vars, web_vars, gui_vars>>

CallFingerprint ==
    /\ sp_op' = "compute_spectral_fingerprint"
    /\ sp_out' = compute_spectral_fingerprint(sp_file)
    /\ UNCHANGED <<sp_file, det_vars, web_vars, gui_vars>>

CallAnalyze ==
    /\ sp_op' = "analyze_spectrum_patterns"
    /\ sp_out' = analyze_spectrum_patterns(sp_file)
    /\ UNCHANGED <<sp_file, det_vars, web_vars, gui_vars>>

NextSpectral == CallFingerprintWeb \/ CallFingerprint \/ CallAnalyze

SpecSpectral == InitSpectral /\ [][NextSpectral]_vars

----------------------------------------------------------------------------
(* The detector on its own: built once, then asked to classify *)

\* The score (in hundredths) the classifier gives its i-th prediction
ScoreByRank == <<62, 25, 8, 3, 1>>

\* The lists of predictions a classifier can return: 1..MaxResults distinct
\* labels, best first.
LabelLists ==
    UNION {{l \in [1..n -> Labels] : \A i, j \in 1..n : i # j => l[i] # l[j]}
           : n \in 1..MaxResults}
ClassifierResults ==
    {[i \in 1..Len(l) |-> [label |-> l[i], score |-> ScoreByRank[i]]] : l \in LabelLists}

DetFiles == {NoFile,
             [decodable |-> TRUE, H |-> 2, W |-> 2, dc |-> 9, low |-> 0, base |-> 0,
              peak |-> 3, p |-> 0, single |-> FALSE]}

RequestedModels == {DefaultModel, fallback_models[2]}

InitDetect ==
    /\ det_in \in [requested : RequestedModels, ok : LoadOutcomes, file : DetFiles,
                   infer_ok : BOOLEAN, results : ClassifierResults]
    /\ det = Unbuilt /\ det_out = NoDetOut /\ det_fmt = NoFmt
    /\ sp_op = "none" /\ sp_file = NoFile /\ sp_out = NoOut
    /\ WebOff /\ GuiOff

\* AIImageDetector(det_in.requested)
Construct ==
    /\ det = Unbuilt
    /\ det' = NewDetector(det_in.requested, det_in.ok)
    /\ UNCHANGED <<det_in, det_out, det_fmt, sp_vars, web_vars, gui_vars>>

\* detector.detect(path)
Detect ==
    /\ det.raised = "none"
    /\ det_out' = detect(det, det_in.file, det_in.infer_ok, det_in.results)
    /\ UNCHANGED <<det_in, det, det_fmt, sp_vars, web_vars, gui_vars>>

\* detector.get_formatted_result(path)
FormattedResult ==
    /\ det.raised = "none"
    /\ det_fmt' = get_formatted_result(det, det_in.file, det_in.infer_ok, det_in.results)
    /\ UNCHANGED <<det_in, det, det_out, sp_vars, web_vars, gui_vars>>

NextDetect == Construct \/ Detect \/ FormattedResult

SpecDetect == InitDetect /\ [][NextDetect]_vars

----------------------------------------------------------------------------
(* app.py: the Flask front end *)

\* get_detector() when the global is g, `n` constructions were made so far and
\* the pipeline() calls of a construction would answer ok: the global
\* afterwards, the value returned, the constructions made.
get_detector_V2(g, n, ok) ==
    LET d == NewDetector(DefaultModel, ok)
        made == [id |-> n + 1, model_name |-> d.model_name, classifier |-> d.classifier]
    IN  IF d.raised = "none"
        THEN [global |-> made, returned |-> made, loads |-> n + 1]
        ELSE [global |-> g, returned |-> NoDetector, loads |-> n + 1]
get_detector(g, n, ok) ==
    IF g = NoDetector
    THEN LET d == NewDetector(DefaultModel, ok)
             made == [id |-> n + 1, model_name |-> d.model_name,
                      classifier |-> d.classifier]
         IN  IF d.raised = "none"
             THEN [global |-> made, returned |-> made, loads |-> n + 1]
             ELSE [global |-> NoDetector, returned |-> NoDetector, loads |-> n + 1]
    ELSE [global |-> g, returned |-> g, loads |-> n]

\* The branch of analyze() taken when get_detector() returned None
Unavailable == [detection |-> [pct |-> -1, word |-> "Model unavailable"],
                label |-> "unknown", confidence |-> 0]

ErrorResponse(code, e) == [NoResponse EXCEPT !.status = code, !.error = e]

\* The try block of analyze() after file.save: the response, and whether
\* os.remove(file_path) was reached.  model is what get_detector() returned;
\* plt says whether matplotlib.pyplot is bound in the module; render_ok whether
\* savefig succeeds.
analyze_body(model, f, infer_ok, results, plt, render_ok) ==
    LET fmt == get_formatted_result(model, f, infer_ok, results)
        raw == detect(model, f, infer_ok, results)
        fig == compute_spectral_fingerprint_web(f)
        txt == analyze_spectrum_patterns(f)
        found == IF model = NoDetector THEN Unavailable
                 ELSE [detection |-> fmt.text, label |-> raw.ret.label,
                       confidence |-> raw.ret.confidence]
    IN  IF model # NoDetector /\ fmt.raised # "none"
        THEN [resp |-> ErrorResponse(500, fmt.raised), removed |-> FALSE]
        ELSE IF fig.raised # "none"
        THEN [resp |-> ErrorResponse(500, fig.raised), removed |-> FALSE]
        ELSE IF ~render_ok
        THEN [resp |-> ErrorResponse(500, "Exception"), removed |-> FALSE]
        ELSE IF ~plt
        THEN [resp |-> ErrorResponse(500, "NameError"), removed |-> FALSE]
        ELSE IF txt.raised # "none"
        THEN [resp |-> ErrorResponse(500, txt.raised), removed |-> FALSE]
        ELSE [resp |-> [status |-> 200, error |-> "", detection |-> found.detection,
                        is_ai |-> (found.label = "artificial"),
                        confidence |-> found.confidence,
                        spectrum_image |-> fig.fig, analysis |-> txt.text],
              removed |-> TRUE]

FileNames == {"a.png"}

WebFiles == {NoFile,
             [decodable |-> TRUE, H |-> 1, W |-> 1, dc |-> 9, low |-> 0, base |-> 0,
              peak |-> 3, p |-> 0, single |-> FALSE],
             [decodable |-> TRUE, H |-> 2, W |-> 3, dc |-> 9, low |-> 0, base |-> 1,
              peak |-> 3, p |-> 1, single |-> FALSE]}

\* What the pipeline() calls of one construction answer: none loads, the
\* default model loads, only the second fallback loads.
AppLoadOutcomes ==
    {ok \in LoadOutcomes :
        \/ \A i \in DOMAIN ok : ~ok[i]
        \/ \A i \in DOMAIN ok : ok[i] <=> i = 1
        \/ \A i \in DOMAIN ok : ok[i] <=> i = 3}

AppResults ==
    {<<[label |-> L_artificial, score |-> ScoreByRank[1]]>>,
     <<[label |-> L_tabby, score |-> ScoreByRank[1]],
       [label |-> L_FAKE, score |-> ScoreByRank[2]]>>}

\* python app.py: pyplot is imported, get_detector() is called, the server runs
RunMain ==
    /\ web_mode = "off"
    /\ \E ok \in AppLoadOutcomes :
         LET g == get_detector(detector, loads, ok)
         IN  /\ detector' = g.global
             /\ loads' = g.loads
             /\ web_get' = g.returned
    /\ web_mode' = "main"
    /\ UNCHANGED <<temp_uploads, web_req, web_resp, served, sp_vars, det_vars, gui_vars>>

\* the module imported by a WSGI server: the __main__ block does not run
ImportApp ==
    /\ web_mode = "off"
    /\ web_mode' = "imported"
    /\ UNCHANGED <<detector, loads, web_get, temp_uploads, web_req, web_resp, served,
                   sp_vars, det_vars, gui_vars>>

\* POST /analyze without an 'image' part, or with an empty file name
AnalyzeRejected ==
    /\ web_mode # "off" /\ served < MaxRequests
    /\ \E has \in BOOLEAN :
         /\ web_req' = [NoRequest EXCEPT !.has_image = has]
         /\ web_resp' = ErrorResponse(400, IF has THEN "No selected file"
                                           ELSE "No image file provided")
    /\ served' = served + 1
    /\ UNCHANGED <<web_mode, detector, loads, web_get, temp_uploads, sp_vars, det_vars,
                   gui_vars>>

\* POST /analyze with a named file
Analyze ==
    /\ web_mode # "off" /\ served < MaxRequests
    /\ \E name \in FileNames, f \in WebFiles, ok \in AppLoadOutcomes,
          infer_ok \in BOOLEAN, results \in AppResults, render_ok \in BOOLEAN :
         LET g == get_detector(detector, loads, ok)
             b == analyze_body(g.returned, f, infer_ok, results,
                               web_mode = "main", render_ok)
         IN  /\ web_req' = [has_image |-> TRUE, filename |-> name, file |-> f]
             /\ detector' = g.global
             /\ loads' = g.loads
             /\ web_get' = g.returned
             /\ web_resp' = b.resp
             /\ temp_uploads' = IF b.removed THEN temp_uploads \ {name}
                                ELSE temp_uploads \cup {name}
    /\ served' = served + 1
    /\ UNCHANGED <<web_mode, sp_vars, det_vars, gui_vars>>

InitWeb ==
    /\ WebOff /\ GuiOff
    /\ sp_op = "none" /\ sp_file = NoFile /\ sp_out = NoOut
    /\ det_in = NoDetIn /\ det = Unbuilt /\ det_out = NoDetOut /\ det_fmt = NoFmt

NextWeb == RunMain \/ ImportApp \/ AnalyzeRejected \/ Analyze

SpecWeb == InitWeb /\ [][NextWeb]_vars

----------------------------------------------------------------------------
(* ai_detector_gui.py: the desktop front end *)

Live(w) == w.pc # "done"
LiveWorkers == {i \in 1..Len(workers) : Live(workers[i])}

\* A callback handed to self.after(0, ...)
Callback(kind, detection, msg, color, figure, analysis) ==
    [kind |-> kind, detection |-> detection, msg |-> msg, color |-> color,
     figure |-> figure, analysis |-> analysis]

\* The two callbacks of the except clause of _analyze_image
ErrorCallbacks(e) ==
    <<Callback("result", NoText, e, "red", FALSE, <<>>),
      Callback("status", NoText, "Analysis failed", "red", FALSE, <<>>)>>

\* The test of _process_image on self.is_processing
Busy(flag) == flag

\* self.is_processing after the try statement of _analyze_image, whether or
\* not it raised
is_processing_at_end_V2(raised) == raised
is_processing_at_end(raised) == FALSE

\* _load_model_async's thread: AIImageDetector(), the outcome on the status line
LoadModel ==
    /\ gui_load = "loading"
    /\ \E ok \in AppLoadOutcomes :
         LET d == NewDetector(DefaultModel, ok)
         IN  IF d.raised = "none"
             THEN /\ gui_detector' = [id |-> 1, model_name |-> d.model_name,
                                      classifier |-> d.classifier]
                  /\ gui_load' = "loaded"
                  /\ status_label' = [text |-> "Model loaded - Ready to analyze",
                                      color |-> status_label.color]
             ELSE /\ gui_detector' = gui_detector
                  /\ gui_load' = "failed"
                  /\ status_label' = [text |-> "Error loading model", color |-> "red"]
    /\ UNCHANGED <<is_processing, current_image_path, workers, after_q, result_label,
                   spectrum_view, gui_last, uploads, sp_vars, det_vars, web_vars>>

GuiFiles == WebFiles

\* _upload_image with a file chosen: _process_image(image_path)
ProcessImage ==
    /\ gui_load # "off" /\ uploads < MaxUploads
    /\ uploads' = uploads + 1
    /\ \E f \in GuiFiles :
         IF Busy(is_processing)
         THEN /\ gui_last' = [outcome |-> "busy", file |-> f, load |-> gui_load]
              /\ UNCHANGED <<is_processing, current_image_path, workers, result_label,
                             status_label>>
         ELSE IF gui_detector = NoDetector
         THEN /\ gui_last' = [outcome |-> "wait_model", file |-> f, load |-> gui_load]
              /\ status_label' = [text |-> "Please wait for model to load...",
                                  color |-> "orange"]
              /\ UNCHANGED <<is_processing, current_image_path, workers, result_label>>
         ELSE /\ gui_last' = [outcome |-> "started", file |-> f, load |-> gui_load]
              /\ current_image_path' = f
              /\ is_processing' = TRUE
              /\ result_label' = [detection |-> NoText, msg |-> "Analyzing...",
                                  color |-> "yellow"]
              /\ status_label' = [text |-> "Running analysis...",
                                  color |-> status_label.color]
              /\ workers' = Append(workers, [file |-> f, pc |-> "detect",
                                             raised |-> FALSE])
    /\ UNCHANGED <<gui_detector, gui_load, after_q, spectrum_view, sp_vars, det_vars,
                   web_vars>>

\* _analyze_image, first half: get_formatted_result and detect, then
\* self.after(0, self._update_result, ...); the except clause if they raise
WorkerDetect ==
    \E i \in LiveWorkers, infer_ok \in BOOLEAN, results \in AppResults :
        LET w == workers[i]
            fmt == get_formatted_result(gui_detector, w.file, infer_ok, results)
            data == detect(gui_detector, w.file, infer_ok, results)
        IN  /\ w.pc = "detect"
            /\ IF fmt.raised # "none"
               THEN /\ after_q' = after_q \o ErrorCallbacks(fmt.raised)
                    /\ workers' = [workers EXCEPT ![i].pc = "finally",
                                                  ![i].raised = TRUE]
               ELSE /\ after_q' = Append(after_q,
                          Callback("result", fmt.text, "",
                                   IF data.ret.label = "artificial" THEN "#ff4444"
                                   ELSE "#44ff44", FALSE, <<>>))
                    /\ workers' = [workers EXCEPT ![i].pc = "spectral"]
            /\ UNCHANGED <<gui_detector, gui_load, is_processing, current_image_path,
                           result_label, spectrum_view, status_label, gui_last, uploads,
                           sp_vars, det_vars, web_vars>>

\* _analyze_image, second half: compute_spectral_fingerprint and
\* analyze_spectrum_patterns, then the two self.after calls; the except clause
\* if they raise
WorkerSpectral ==
    \E i \in LiveWorkers :
        LET w == workers[i]
            fig == compute_spectral_fingerprint(w.file)
            txt == analyze_spectrum_patterns(w.file)
        IN  /\ w.pc = "spectral"
            /\ IF fig.raised # "none" \/ txt.raised # "none"
               THEN /\ after_q' = after_q \o ErrorCallbacks(
                          IF fig.raised # "none" THEN fig.raised ELSE txt.raised)
                    /\ workers' = [workers EXCEPT ![i].pc = "finally",
                                                  ![i].raised = TRUE]
               ELSE /\ after_q' = after_q \o
                          <<Callback("spectrum", NoText, "", "", fig.fig, txt.text),
                            Callback("status", NoText, "Analysis complete", "green",
                                     FALSE, <<>>)>>
                    /\ workers' = [workers EXCEPT ![i].pc = "finally"]
            /\ UNCHANGED <<gui_detector, gui_load, is_processing, current_image_path,
                           result_label, spectrum_view, status_label, gui_last, uploads,
                           sp_vars, det_vars, web_vars>>

\* _analyze_image, the finally clause; the thread ends
WorkerFinally ==
    \E i \in LiveWorkers :
        /\ workers[i].pc = "finally"
        /\ is_processing' = is_processing_at_end(workers[i].raised)
        /\ workers' = [workers EXCEPT ![i].pc = "done"]
        /\ UNCHANGED <<gui_detector, gui_load, current_image_path, after_q,
                       result_label, spectrum_view, status_label, gui_last, uploads,
                       sp_vars, det_vars, web_vars>>

\* The main loop runs the oldest queued callback: _update_result,
\* _update_spectrum, or a configure of a label
RunAfter ==
    /\ after_q # <<>>
    /\ LET c == Head(after_q)
       IN  /\ result_label' = IF c.kind = "result"
                              THEN [detection |-> c.detection, msg |-> c.msg,
                                    color |-> c.color]
                              ELSE result_label
           /\ spectrum_view' = IF c.kind = "spectrum"
                               THEN [figure |-> c.figure, analysis |-> c.analysis]
                               ELSE spectrum_view
           /\ status_label' = IF c.kind = "status"
                              THEN [text |-> c.msg, color |-> c.color]
                              ELSE status_label
    /\ after_q' = Tail(after_q)
    /\ UNCHANGED <<gui_detector, gui_load, is_processing, current_image_path, workers,
                   gui_last, uploads, sp_vars, det_vars, web_vars>>

\* AIDetectorApp(): __init__ has set the fields and started the load thread
InitGui ==
    /\ gui_load = "loading" /\ GuiUnused
    /\ WebOff
    /\ sp_op = "none" /\ sp_file = NoFile /\ sp_out = NoOut
    /\ det_in = NoDetIn /\ det = Unbuilt /\ det_out = NoDetOut /\ det_fmt = NoFmt

NextGui ==
    LoadModel \/ ProcessImage \/ WorkerDetect \/ WorkerSpectral \/ WorkerFinally
        \/ RunAfter

SpecGui == InitGui /\ [][NextGui]_vars

----------------------------------------------------------------------------
(* Properties of the spectral module *)

Analyzed == sp_op = "analyze_spectrum_patterns"
Rendered == sp_op \in {"compute_spectral_fingerprint_web", "compute_spectral_fingerprint"}

\* The outer region and its statistics, written from their description:
\* squared distance from (H div 2, W div 2) beyond the square of
\* min(H div 2, W div 2) div 4.
Dist2(f, c) ==
    (c[1] - f.H \div 2) * (c[1] - f.H \div 2) + (c[2] - f.W \div 2) * (c[2] - f.W \div 2)
OuterRegion(f) ==
    {c \in Cells(f) :
        Dist2(f, c) > (Min(f.H \div 2, f.W \div 2) \div 4) * (Min(f.H \div 2, f.W \div 2) \div 4)}
OuterWith(f, v) == Cardinality({c \in OuterRegion(f) : Magnitude(f, c[1], c[2]) = v})
MagValues(f) == {f.dc, f.low, f.base, f.peak}
RECURSIVE WeightedSum(_, _, _)
WeightedSum(f, V, k) ==
    IF V = {} THEN 0
    ELSE LET v == CHOOSE w \in V : TRUE
         IN  (v ^ k) * OuterWith(f, v) + WeightedSum(f, V \ {v}, k)
OuterAnomalies(f) ==
    LET n == Cardinality(OuterRegion(f))
        s == WeightedSum(f, MagValues(f), 1)
        q == WeightedSum(f, MagValues(f), 2)
    IN  Cardinality({c \in OuterRegion(f) :
                        ExceedsThreshold(Magnitude(f, c[1], c[2]), n, s, q)})

\* C1: for a path that does not resolve to a decodable image,
\* compute_spectral_fingerprint_web and compute_spectral_fingerprint raise,
\* while analyze_spectrum_patterns raises nothing and returns the sentinel
\* "Could not analyze image".
C1_LoadFailure ==
    ~sp_file.decodable =>
        /\ Rendered => sp_out.raised = "ValueError" /\ ~sp_out.fig
        /\ Analyzed => sp_out.raised = "none" /\ sp_out.text = Sentinel
C1_Witness == ~sp_file.decodable /\ Analyzed /\ sp_out.text = Sentinel

\* C2: for every decodable image of any size, 1x1 included,
\* analyze_spectrum_patterns raises nothing and returns exactly two lines, one
\* of the two fixed message pairs.
C2_TwoLineVerdict ==
    (Analyzed /\ sp_file.decodable) =>
        /\ sp_out.raised = "none"
        /\ Len(sp_out.text) = 2
        /\ sp_out.text \in {AnomalousPair, NaturalPair}

\* C3: for a loaded image the anomalous pair is returned exactly when more
\* than 100 outer-region cells exceed mean + 3*stddev of the outer region; a
\* count of 100 or less yields the natural pair.
C3_AnomalyLimit ==
    (Analyzed /\ sp_file.decodable) =>
        /\ sp_out.text = AnomalousPair <=> OuterAnomalies(sp_file) > 100
        /\ OuterAnomalies(sp_file) <= 100 => sp_out.text = NaturalPair

\* C4: the exclusion radius is min(H div 2, W div 2) div 4 (50 for 400x400);
\* the mean, the standard deviation, the maximum and the anomaly count are
\* taken over exactly the cells whose squared distance from the centre is
\* beyond radius^2, and no magnitude inside that distance changes them.
C4_ExclusionRegion ==
    /\ radius([NoFile EXCEPT !.H = 400, !.W = 400]) = 50
    /\ (Analyzed /\ sp_file.decodable) =>
        /\ sp_out.locals.radius = Min(sp_file.H \div 2, sp_file.W \div 2) \div 4
        /\ sp_out.locals.n = Cardinality(OuterRegion(sp_file))
        /\ sp_out.locals.sum = WeightedSum(sp_file, MagValues(sp_file), 1)
        /\ sp_out.locals.sumsq = WeightedSum(sp_file, MagValues(sp_file), 2)
        /\ sp_out.locals.n > 0 =>
            /\ sp_out.locals.max
                 = MaxOf({Magnitude(sp_file, c[1], c[2]) : c \in OuterRegion(sp_file)})
            /\ sp_out.locals.anomalies = OuterAnomalies(sp_file)
        /\ sp_out = analyze_spectrum_patterns([sp_file EXCEPT !.dc = 0])
        /\ sp_out.locals.radius >= 1 =>
             sp_out = analyze_spectrum_patterns([sp_file EXCEPT !.dc = 0, !.low = 0])
C4_Witness ==
    /\ Analyzed /\ sp_file.decodable
    /\ sp_out.locals.radius >= 1 /\ sp_file.low > sp_out.locals.max

\* C5 as stated: the radius is strictly positive whenever H >= 8 or W >= 8.
C5_RadiusPositiveEither ==
    (Analyzed /\ sp_file.decodable /\ (sp_file.H >= 8 \/ sp_file.W >= 8)) =>
        sp_out.locals.radius > 0
\* C5 amended: the radius is strictly positive whenever H >= 8 and W >= 8.
C5_RadiusPositiveBoth ==
    (Analyzed /\ sp_file.decodable /\ sp_file.H >= 8 /\ sp_file.W >= 8) =>
        sp_out.locals.radius > 0
C5_Witness ==
    Analyzed /\ sp_file.decodable /\ sp_file.H = 8 /\ sp_file.W = 8
        /\ sp_out.locals.radius = 1

----------------------------------------------------------------------------
(* Properties of the detector *)

Detected == det_out.raised = "none"
TopText == lower(det_in.results[1].label)
HasAI(t) == \E j \in 1..Len(ai_keywords) : Contains(t, ai_keywords[j])
HasReal(t) == \E j \in 1..Len(real_keywords) : Contains(t, real_keywords[j])
OtherAI ==
    /\ Len(det_in.results) > 1
    /\ \E i \in 2..Len(det_in.results) : HasAI(lower(det_in.results[i].label))

\* C6 as stated: when the top label (lower-cased) has no AI keyword and no real
\* keyword, detect returns 'real' unless the label contains 'not', and then
\* 'artificial', whatever the rest of the list of predictions is.
C6_DefaultLabelAnyList ==
    (Detected /\ ~HasAI(TopText) /\ ~HasReal(TopText)) =>
        det_out.ret.label
            = IF Contains(TopText, <<"n", "o", "t">>) THEN "artificial" ELSE "real"
\* C6 amended: the same when no other prediction of the list carries an AI
\* keyword; when one does, detect returns 'artificial'.
C6_DefaultLabel ==
    (Detected /\ ~HasAI(TopText) /\ ~HasReal(TopText)) =>
        /\ ~OtherAI =>
             det_out.ret.label
                = IF Contains(TopText, <<"n", "o", "t">>) THEN "artificial" ELSE "real"
        /\ OtherAI => det_out.ret.label = "artificial"
C6_Witness ==
    /\ Detected /\ Len(det_in.results) > 1 /\ ~OtherAI
    /\ ~HasAI(TopText) /\ ~HasReal(TopText) /\ Contains(TopText, <<"n", "o", "t">>)
    /\ det_out.ret.label = "artificial"

\* C9: _load_model calls pipeline() on the requested model, then on
\* Organika/sdxl-detector, saltacc/anime-ai-detect, google/vit-base-patch16-224
\* in that order, stopping at the first success; it raises RuntimeError exactly
\* when all four fail; on success the classifier is set and model_name, which
\* detect reports as model_used, is the model that loaded.
ClaimedOrder == <<det_in.requested, "Organika/sdxl-detector", "saltacc/anime-ai-detect",
                  "google/vit-base-patch16-224">>
FirstOk == CHOOSE i \in 1..4 : det_in.ok[i] /\ \A j \in 1..(i - 1) : ~det_in.ok[j]
C9_FallbackOrder ==
    det # Unbuilt =>
        /\ det.raised = "RuntimeError" <=> \A i \in 1..4 : ~det_in.ok[i]
        /\ det.raised \in {"none", "RuntimeError"}
        /\ det.raised = "RuntimeError" => det.attempts = ClaimedOrder
        /\ det.raised = "none" =>
            /\ det.attempts = SubSeq(ClaimedOrder, 1, FirstOk)
            /\ det.classifier = ClaimedOrder[FirstOk]
            /\ det.model_name = ClaimedOrder[FirstOk]
            /\ Detected => det_out.ret.model_used = ClaimedOrder[FirstOk]
C9_Witness ==
    /\ det.raised = "none" /\ ~det_in.ok[1] /\ ~det_in.ok[2] /\ det_in.ok[3]
    /\ Detected /\ det_out.ret.model_used = "saltacc/anime-ai-detect"

----------------------------------------------------------------------------
(* Properties of the web front end *)

\* a step in which get_detector() is called: the start of python app.py, or an
\* /analyze request that carries a named file
CallsGetDetector ==
    \/ web_mode = "off" /\ web_mode' = "main"
    \/ served' = served + 1 /\ web_req'.has_image /\ web_req'.filename # ""

\* C7: a failed construction makes get_detector return None and leaves the
\* global unset, and the request is answered (no crash), a success response
\* carrying "Model unavailable", confidence 0, is_ai false; while the global
\* is unset every get_detector call constructs again; once it is set every
\* call returns that instance and constructs nothing.
C7_Unavailable ==
    /\ web_resp.status \in {0, 200, 400, 500}
    /\ (web_resp.status = 200 /\ web_get = NoDetector) =>
        /\ web_resp.detection.word = "Model unavailable"
        /\ web_resp.detection.pct = -1
        /\ web_resp.confidence = 0
        /\ web_resp.is_ai = FALSE
C7_GetDetectorStep ==
    CallsGetDetector =>
        /\ detector = NoDetector =>
            /\ loads' = loads + 1
            /\ web_get' = detector'
            /\ detector' # NoDetector => detector'.id = loads'
        /\ detector # NoDetector =>
            /\ loads' = loads
            /\ detector' = detector
            /\ web_get' = detector
        /\ served' = served + 1 => web_resp'.status \in {200, 500}
----------------------------------------------------------------------------
(* Properties of the desktop front end *)

\* C8: in both front ends, once the classifier could not be built, an image a
\* user submits still gets its spectral figure and its pattern verdict
\* computed and delivered.  Web: the response to a request with a decodable
\* image.  Desktop: the spectrum panel once the upload has been dealt with
\* (no analysis thread running, no callback pending).
C8_SpectrumWithoutModel ==
    /\ (web_resp.status # 0 /\ web_req.has_image /\ web_req.filename # ""
            /\ web_req.file.decodable /\ web_get = NoDetector) =>
        /\ web_resp.status = 200 /\ web_resp.spectrum_image
        /\ web_resp.analysis \in {AnomalousPair, NaturalPair}
    /\ (gui_load = "failed" /\ gui_last.load = "failed" /\ gui_last.file.decodable
            /\ LiveWorkers = {} /\ after_q = <<>>) =>
        /\ spectrum_view.figure
        /\ spectrum_view.analysis \in {AnomalousPair, NaturalPair}

\* C10: at most one _analyze_image thread runs at a time; a _process_image
\* call made while is_processing is true starts nothing; is_processing is true
\* exactly while an analysis thread runs, so it is false again when the thread
\* has ended, whether or not the analysis raised; and a call made with the
\* model loaded and no analysis running starts one.
C10_OneWorker ==
    /\ Cardinality(LiveWorkers) <= 1
    /\ is_processing <=> LiveWorkers # {}
C10_ProcessImageStep ==
    uploads' = uploads + 1 =>
        /\ is_processing => workers' = workers /\ gui_last'.outcome = "busy"
        /\ (LiveWorkers = {} /\ gui_detector # NoDetector) =>
            /\ gui_last'.outcome = "started"
            /\ Len(workers') = Len(workers) + 1
            /\ is_processing'
C10_SingleAnalysis == []C10_OneWorker /\ [][C10_ProcessImageStep]_vars
C10_Witness ==
    /\ Len(workers) >= 2
    /\ workers[1].pc = "done" /\ workers[1].raised
    /\ workers[2].pc = "detect" /\ is_processing

----------------------------------------------------------------------------
(* Further properties of the detector, the spectral module and the web app *)

\* C11: detect returns a label in {'artificial', 'real'}; keywords are matched
\* as substrings whatever the case of the label ("FAKE" is artificial, "Real"
\* is real); a top label with an AI keyword gives 'artificial' even when it
\* also has a real keyword, and one with a real keyword only gives 'real'.
C11_LabelMapping ==
    Detected =>
        /\ det_out.ret.label \in {"artificial", "real"}
        /\ HasAI(TopText) => det_out.ret.label = "artificial"
        /\ (HasReal(TopText) /\ ~HasAI(TopText)) => det_out.ret.label = "real"
        /\ det_in.results[1].label = <<"F", "A", "K", "E">> =>
             det_out.ret.label = "artificial"
        /\ det_in.results[1].label = <<"R", "e", "a", "l">> =>
             det_out.ret.label = "real"
C11_Witness ==
    /\ Detected /\ HasAI(TopText) /\ HasReal(TopText)
    /\ det_out.ret.label = "artificial"

\* C12: a loaded image whose outer region has at most 100 cells (any image
\* with H*W <= 101 among them) gets the natural pair, whatever its values.
C12_SmallImageNatural ==
    (Analyzed /\ sp_file.decodable /\ Cardinality(OuterRegion(sp_file)) <= 100) =>
        /\ sp_out.raised = "none"
        /\ sp_out.text = NaturalPair

\* C13: an /analyze request that saved the upload has removed it from the
\* upload folder when it responds, with a success or with an error.
C13_TempFileRemoved ==
    (web_resp.status \in {200, 500} /\ web_req.has_image /\ web_req.filename # "") =>
        web_req.filename \notin temp_uploads

====
